---- MODULE Spec2Model ----
(***************************************************************************)
(* Model of src/monitor/callback/mq.go: the export_app worker (ExportApp), *)
(* its docker-compose descriptor builder (dockerCompose) and the name      *)
(* sanitizer (unicode2zh, composeName).                                    *)
(*                                                                         *)
(* Spec      the export orchestrator: Run, its pipeline stages, the status *)
(*           store and the dispatcher's ErrorCallBack, over a workspace    *)
(*           that is exported several times.                               *)
(* SpecNames dockerCompose.buildServiceNames and the service keys of the   *)
(*           generated descriptor.                                         *)
(* SpecEnv   the environment merge of buildDockerComposeYaml.              *)
(* SpecVolumes dockerCompose.buildVolumes and GetGlobalVolumes.            *)
(*                                                                         *)
(* Strings the code inspects character by character are sequences of code  *)
(* points; files of the workspace are <<kind, i, j>> tokens.               *)
(***************************************************************************)
EXTENDS Integers, Sequences, FiniteSets, TLC

VARIABLES
  \* ---- ExportApp task and its workspace (Spec)
  Format,     \* ExportApp.Format
  pc,         \* position of the worker inside Run / the dispatcher
  manifest,   \* <SourceDir>/metadata.json: a document id, or NoFile
  sidecar,    \* <SourceDir>/metadata.json.md5: a recorded checksum, NoFile or Empty
  archive,    \* <SourceDir>.zip: NoFile, Partial or the archived workspace
  files,      \* every other file below <SourceDir>
  store,      \* status of the task's row in the status store
  updates,    \* updateStatus calls of the current run: <<status, ok>>
  ret,        \* what Run returned: "none" (still running), "nil" or "err"
  stages,     \* stages entered by the current run, in order
  imageOps,   \* image requests issued by the current run, in order
  err,        \* the first stage of the current run that returned an error
  fs0,        \* the filesystem when the current run started
  fsErr,      \* the filesystem when err was returned
  runs,       \* number of times Run was started
  prev,       \* how the previous run ended and what it left in the filesystem
  readers,    \* the manifest readers the current run has called, in order
  \* ---- dockerCompose name registry (SpecNames)
  comps,      \* ram.Components: <<[id, cname]>>
  npc,        \* position of the descriptor build
  idx,        \* loop index of the running loop
  names,      \* dockerCompose.serviceNames: share id -> name
  set,        \* the local set of buildServiceNames
  services,   \* keys of DockerComposeYaml.Services
  edges,      \* dep_service_map_list of the app whose service was stored last
  dependsOn,  \* DependsOn of that service
  \* ---- environment of buildDockerComposeYaml (SpecEnv)
  apps,       \* per app record: share id and service_connect_info_map_list
  epc,        \* position inside the loop of buildDockerComposeYaml
  eidx,       \* index of the app whose service is being built
  cur,        \* the other fields of that app record, as the loop read them
  envs        \* the local map envs of the current iteration

VARIABLES
  \* --- the volumes of the compose descriptor (dockerCompose.buildVolumes) ---
  vcomps,            \* d.ram.Components: share id, registry name, volumes, mounts
  vpc,               \* position inside buildVolumes
  vidx,              \* index of the component the running loop is at
  volumeMaps,        \* share id + volume name -> the volume's compose name
  volumeList,        \* the named volumes, in the order they were built
  componentVolumes,  \* share id -> the binds of the service
  globalVolumes,     \* what GetGlobalVolumes returns, once called
  \* the scrape updater (Mq)
  sortedEndpoints,   \* Mq.sortedEndpoints
  scrapes,           \* the configurations handed to Prometheus.UpdateScrape
  mcalls,            \* number of UpdateEndpoints calls so far
  lastCall,          \* the arguments and the outcome of the last call
  \* one call of composeName
  text,              \* the argument, uText
  res,               \* the result, once the call has returned
  spc                \* "call" before the call, "return" after it

orchVars == <<Format, pc, manifest, sidecar, archive, files, store, updates,
              ret, stages, imageOps, err, fs0, fsErr, runs, prev, readers>>
nameVars == <<comps, npc, idx, names, set, services, edges, dependsOn>>
envVars  == <<apps, epc, eidx, cur, envs>>
volVars  == <<vcomps, vpc, vidx, volumeMaps, volumeList, componentVolumes,
              globalVolumes>>
mqVars   == <<sortedEndpoints, scrapes, mcalls, lastCall>>
sanVars  == <<text, res, spc>>
vars     == <<orchVars, nameVars, envVars, volVars, mqVars, sanVars>>

(***************************************************************************)
(* Bounds of the model.                                                    *)
(***************************************************************************)
MaxRuns == 2

(***************************************************************************)
(* Helpers on sequences.                                                   *)
(***************************************************************************)
RECURSIVE Flatten(_)
Flatten(ss) == IF ss = <<>> THEN <<>> ELSE Head(ss) \o Flatten(Tail(ss))

Last(s) == s[Len(s)]

(***************************************************************************)
(* The manifest documents the workspace can hold.  A document is what the  *)
(* two readers make of it: parseApps (gjson "apps" array) and parseApp     *)
(* (json.Unmarshal into the structured model).                             *)
(***************************************************************************)
NoManifest   == [exists |-> FALSE, doc |-> 0]
File(d)      == [exists |-> TRUE, doc |-> d]
NoSidecar    == [exists |-> FALSE, sums |-> <<>>]
EmptySidecar == [exists |-> TRUE, sums |-> <<>>]
Sum(h)       == [exists |-> TRUE, sums |-> <<h>>]
NoArchive    == [state |-> "nofile", manifest |-> NoManifest, files |-> {}]
PartArchive  == [state |-> "partial", manifest |-> NoManifest, files |-> {}]

NoErr == [stage |-> "none", cause |-> "none"]
NoRun == [ret |-> "none", err |-> NoErr, touched |-> FALSE,
          fs |-> [manifest |-> NoManifest, sidecar |-> NoSidecar, files |-> {},
                  archive |-> NoArchive]]

Docs ==
  << \* 1: a well-formed manifest: an image component with a config file,
     \*    a component without image with a regular volume, a second image
     \*    component, one plugin
     [apps    |-> << [image |-> "img", vols |-> <<"config-file">>],
                     [image |-> "",    vols |-> <<"share-file">>],
                     [image |-> "img", vols |-> <<>>] >>,
      ramOk   |-> TRUE,
      plugins |-> 1],
     \* 2: well-formed JSON with zero app records
     [apps |-> <<>>, ramOk |-> TRUE, plugins |-> 0],
     \* 3: not JSON at all (also: an empty or cut-off file)
     [apps |-> <<>>, ramOk |-> FALSE, plugins |-> 0],
     \* 4: JSON with an app list whose fields do not fit the structured model
     [apps    |-> << [image |-> "runner", vols |-> <<>>] >>,
      ramOk   |-> FALSE,
      plugins |-> 0] >>

DocIds == DOMAIN Docs

\* the document a cut-off write of the manifest leaves behind
CutOffDoc == CHOOSE d \in DocIds : Docs[d].apps = <<>> /\ ~Docs[d].ramOk

Formats == {"rainbond-app", "docker-compose", "helm-chart"}

\* md5sum of a manifest document (injective on DocIds, not the identity)
Md5(d) == (7 * d + 3) % 16

Workspace == [manifest |-> manifest, sidecar |-> sidecar, files |-> files]

FS == [manifest |-> manifest, sidecar |-> sidecar, files |-> files,
       archive |-> archive]

FSNext == [manifest |-> manifest', sidecar |-> sidecar', files |-> files',
           archive |-> archive']

(***************************************************************************)
(* Stage results.                                                          *)
(***************************************************************************)
Fail(stage, cause) ==
  /\ pc' = "failed"
  /\ err' = [stage |-> stage, cause |-> cause]
  /\ fsErr' = FSNext

Goto(next) ==
  /\ pc' = next
  /\ UNCHANGED <<err, fsErr>>

\* updateStatus: ok is whether GetByEventId and UpdateModel both succeeded
updateStatus(status, ok) ==
  /\ updates' = Append(updates, <<status, ok>>)
  /\ store' = IF ok THEN status ELSE store

(***************************************************************************)
(* A staging stage is a plan of file and image operations executed in      *)
(* order; the first failing operation ends the stage.  k operations of the *)
(* plan succeed; when k < Len(plan), operation k+1 is the one that fails.  *)
(***************************************************************************)
NoTok == <<"", 0, 0>>

Op(o, a, f, c) == [op |-> o, arg |-> a, file |-> f, canFail |-> c]

IsImageOp(o) == o.op \in {"pull", "tag", "save", "multisave"}

Steps(plan) == {k \in 0..Len(plan) : k = Len(plan) \/ plan[k + 1].canFail}

Written(plan, k) == {plan[i].file : i \in 1..k} \ {NoTok}

Issued(plan, k) ==
  LET m   == IF k < Len(plan) THEN k + 1 ELSE k
      ops == SelectSeq(SubSeq(plan, 1, m), IsImageOp)
  IN [i \in 1..Len(ops) |-> <<ops[i].op, ops[i].arg>>]

FailCause(plan, k) == IF IsImageOp(plan[k + 1]) THEN "image" ELSE "io"

\* exportImage: pull, tag and save one image; a runner image is skipped
ExportImagePlan(kind, dirkind, i) ==
  IF kind = "runner" THEN <<>>
  ELSE << Op("pull", <<i>>, NoTok, TRUE),
          Op("tag", <<i>>, NoTok, TRUE),
          Op("save", <<i>>, <<dirkind, i, 0>>, TRUE) >>

\* one iteration of the loop of saveApps
LegacyAppPlan(a, i) ==
  << Op("mkdir", <<i>>, <<"dir", i, 0>>, FALSE) >>
  \o [j \in 1..Len(a.vols) |-> Op("write", <<i>>, <<"vol", i, j>>, TRUE)]
  \o (IF a.image # "" THEN ExportImagePlan(a.image, "image", i) ELSE <<>>)

saveAppsPlan(arr) == Flatten([i \in 1..Len(arr) |-> LegacyAppPlan(arr[i], i)])

\* one iteration of the loop of savePlugins
PluginPlan(p) ==
  << Op("mkdir", <<p>>, <<"plugindir", p, 0>>, FALSE) >>
  \o ExportImagePlan("img", "pluginimage", p)

savePluginsPlan(n) == Flatten([p \in 1..n |-> PluginPlan(p)])

\* ComponentPlan with the image saved per component, as exportImage does
ComponentPlanSaveEach(c, i) ==
  << Op("mkdir", <<i>>, <<"dir", i, 0>>, FALSE) >>
  \o (IF c.image # "" THEN ExportImagePlan(c.image, "image", i) ELSE <<>>)

\* one iteration of the loop of saveComponents
ComponentPlan(c, i) ==
  LET cfg == SelectSeq([j \in 1..Len(c.vols) |-> <<j, c.vols[j]>>],
                       LAMBDA v : v[2] = "config-file")
  IN << Op("mkdir", <<i>>, <<"dir", i, 0>>, FALSE) >>
     \o [n \in 1..Len(cfg) |-> Op("write", <<i>>, <<"vol", i, cfg[n][1]>>, TRUE)]
     \o (IF c.image # ""
         THEN << Op("pull", <<i>>, NoTok, TRUE), Op("tag", <<i>>, NoTok, TRUE) >>
         ELSE <<>>)

\* saveComponentImages: one MultiImageSave of the collected image names
saveComponentImagesPlan(cs) ==
  LET withImage == SelectSeq([i \in 1..Len(cs) |-> i], LAMBDA i : cs[i].image # "")
  IN << Op("multisave", withImage, <<"component-images", 0, 0>>, TRUE) >>

saveComponentsPlan(cs) ==
  Flatten([i \in 1..Len(cs) |-> ComponentPlan(cs[i], i)])
  \o saveComponentImagesPlan(cs)

(***************************************************************************)
(* The readers of the manifest.                                            *)
(***************************************************************************)
\* parseApps: the "apps" array; an error when unreadable or empty
parseAppsOk == manifest.exists /\ Len(Docs[manifest.doc].apps) >= 1

\* parseApp: the structured model; an error when unreadable or unparsable
parseAppOk == manifest.exists /\ Docs[manifest.doc].ramOk

\* md5sum -c that accepts every well-formed md5 file, without hashing the
\* manifest again
Md5sumCheckSidecarOnly ==
  /\ Len(sidecar.sums) >= 1
  /\ manifest.exists

\* isLatest: the md5 file exists and md5sum -c accepts it
Md5sumCheck ==
  /\ Len(sidecar.sums) >= 1
  /\ manifest.exists
  /\ \A i \in 1..Len(sidecar.sums) : sidecar.sums[i] = Md5(manifest.doc)

\* isLatest with the result of md5sum -c read the wrong way round
isLatestInverted ==
  IF ~sidecar.exists THEN FALSE
  ELSE IF Md5sumCheck THEN FALSE
  ELSE TRUE

isLatest ==
  IF ~sidecar.exists THEN FALSE
  ELSE IF ~Md5sumCheck THEN FALSE
  ELSE TRUE

\* Run with a plain else in place of the second format test
SupportedElse(f) == TRUE

\* Run: the formats that have a pipeline
Supported(f) == f = "rainbond-app" \/ f = "docker-compose"

(***************************************************************************)
(* The export orchestrator.                                                *)
(***************************************************************************)
InitOrch ==
  /\ Format \in Formats
  /\ pc = "idle"
  /\ manifest \in {File(d) : d \in DocIds} \cup {NoManifest}
  /\ sidecar = NoSidecar
  /\ archive = NoArchive
  /\ files = {}
  /\ store = "running"
  /\ updates = <<>>
  /\ ret = "none"
  /\ stages = <<>>
  /\ imageOps = <<>>
  /\ err = NoErr
  /\ fs0 = FS
  /\ fsErr = FS
  /\ runs = 0
  /\ prev = NoRun
  /\ readers = <<>>

\* The dispatcher hands the task to the worker: Run is entered.  An
\* unsupported format makes Run return its error at once.
Run ==
  /\ pc \in {"idle", "done"}
  /\ UNCHANGED <<Format, manifest, sidecar, archive, files, store>>
  /\ UNCHANGED <<sanVars, mqVars, volVars, nameVars, envVars>>
  /\ readers' = <<>>
  /\ runs < MaxRuns
  /\ runs' = runs + 1
  /\ prev' = IF pc = "done"
             THEN [ret |-> ret, err |-> err, touched |-> FALSE, fs |-> FS]
             ELSE prev
  /\ fs0' = FS
  /\ fsErr' = FS
  /\ updates' = <<>>
  /\ stages' = <<>>
  /\ imageOps' = <<>>
  /\ IF Supported(Format)
     THEN /\ pc' = "isLatest"
          /\ ret' = "none"
          /\ err' = NoErr
     ELSE /\ pc' = "callback"
          /\ ret' = "err"
          /\ err' = [stage |-> "Run", cause |-> "format"]

\* the first statement with a freshness check that only looks for the md5 file
IsLatestStatOnly ==
  /\ pc = "isLatest"
  /\ UNCHANGED <<Format, manifest, sidecar, archive, files, store, updates, ret,
                 imageOps, err, fs0, fsErr, runs, prev>>
  /\ UNCHANGED <<sanVars, mqVars, volVars, nameVars, envVars, readers>>
  /\ stages' = Append(stages, "isLatest")
  /\ pc' = IF sidecar.exists THEN "cached" ELSE "clean"

\* exportRainbondAPP / exportDockerCompose, first statement
IsLatest ==
  /\ pc = "isLatest"
  /\ UNCHANGED <<Format, manifest, sidecar, archive, files, store, updates, ret,
                 imageOps, err, fs0, fsErr, runs, prev>>
  /\ UNCHANGED <<sanVars, mqVars, volVars, nameVars, envVars, readers>>
  /\ stages' = Append(stages, "isLatest")
  /\ pc' = IF isLatest THEN "cached" ELSE "clean"

\* the freshness shortcut: updateStatus("success"), its result dropped
CachedSuccess ==
  /\ pc = "cached"
  /\ UNCHANGED <<Format, manifest, sidecar, archive, files, stages, imageOps,
                 err, fs0, fsErr, runs, prev>>
  /\ UNCHANGED <<sanVars, mqVars, volVars, nameVars, envVars, readers>>
  /\ \E ok \in BOOLEAN : updateStatus("success", ok)
  /\ ret' = "nil"
  /\ pc' = "done"

\* CleanSourceDir that removes the staged files and leaves the sidecar
CleanSourceDirKeepSidecar ==
  /\ pc = "clean"
  /\ UNCHANGED <<Format, archive, store, updates, ret, imageOps, fs0, runs, prev>>
  /\ UNCHANGED <<sanVars, mqVars, volVars, nameVars, envVars, readers>>
  /\ stages' = Append(stages, "clean")
  /\ IF ~manifest.exists
     THEN /\ UNCHANGED <<manifest, sidecar, files>>
          /\ Fail("clean", "manifest")
     ELSE /\ files' = {}
          /\ sidecar' = sidecar
          /\ \/ /\ manifest' = manifest
                /\ Goto(IF Format = "rainbond-app" THEN "saveApps"
                        ELSE "saveComponents")
             \/ /\ manifest' \in {NoManifest, File(CutOffDoc)}
                /\ Fail("clean", "io")

CleanSourceDir ==
  /\ pc = "clean"
  /\ UNCHANGED <<Format, archive, store, updates, ret, imageOps, fs0, runs, prev>>
  /\ UNCHANGED <<sanVars, mqVars, volVars, nameVars, envVars, readers>>
  /\ stages' = Append(stages, "clean")
  /\ IF ~manifest.exists
     THEN /\ UNCHANGED <<manifest, sidecar, files>>
          /\ Fail("clean", "manifest")
     ELSE /\ files' = {}
          /\ sidecar' = NoSidecar
          /\ \/ /\ manifest' = manifest
                /\ Goto(IF Format = "rainbond-app" THEN "saveApps"
                        ELSE "saveComponents")
             \/ /\ manifest' \in {NoManifest, File(CutOffDoc)}
                /\ Fail("clean", "io")

\* a staging stage running its plan
RunPlan(stage, plan, next) ==
  \E k \in Steps(plan) :
    /\ files' = files \cup Written(plan, k)
    /\ imageOps' = imageOps \o Issued(plan, k)
    /\ IF k = Len(plan) THEN Goto(next) ELSE Fail(stage, FailCause(plan, k))

saveApps ==
  /\ pc = "saveApps"
  /\ UNCHANGED <<Format, manifest, sidecar, archive, store, updates, ret, fs0,
                 runs, prev>>
  /\ UNCHANGED <<sanVars, mqVars, volVars, nameVars, envVars>>
  /\ readers' = Append(readers, "parseApps")
  /\ stages' = Append(stages, "saveApps")
  /\ IF ~parseAppsOk
     THEN /\ UNCHANGED <<files, imageOps>>
          /\ Fail("saveApps", "manifest")
     ELSE RunPlan("saveApps", saveAppsPlan(Docs[manifest.doc].apps), "savePlugins")

savePlugins ==
  /\ pc = "savePlugins"
  /\ UNCHANGED <<Format, manifest, sidecar, archive, store, updates, ret, fs0,
                 runs, prev>>
  /\ UNCHANGED <<sanVars, mqVars, volVars, nameVars, envVars, readers>>
  /\ stages' = Append(stages, "savePlugins")
  /\ IF ~manifest.exists
     THEN /\ UNCHANGED <<files, imageOps>>
          /\ Fail("savePlugins", "manifest")
     ELSE RunPlan("savePlugins", savePluginsPlan(Docs[manifest.doc].plugins), "zip")

saveComponents ==
  /\ pc = "saveComponents"
  /\ UNCHANGED <<Format, manifest, sidecar, archive, store, updates, ret, fs0,
                 runs, prev>>
  /\ UNCHANGED <<sanVars, mqVars, volVars, nameVars, envVars>>
  /\ readers' = Append(readers, "parseApp")
  /\ stages' = Append(stages, "saveComponents")
  /\ IF ~parseAppOk
     THEN /\ UNCHANGED <<files, imageOps>>
          /\ Fail("saveComponents", "manifest")
     ELSE RunPlan("saveComponents", saveComponentsPlan(Docs[manifest.doc].apps),
                  "buildYaml")

buildDockerComposeYaml ==
  /\ pc = "buildYaml"
  /\ UNCHANGED <<Format, manifest, sidecar, archive, store, updates, ret,
                 imageOps, fs0, runs, prev>>
  /\ UNCHANGED <<sanVars, mqVars, volVars, nameVars, envVars>>
  /\ readers' = readers \o (IF parseAppsOk THEN <<"parseApps", "parseApp">>
                            ELSE <<"parseApps">>)
  /\ stages' = Append(stages, "buildYaml")
  /\ IF ~parseAppsOk \/ ~parseAppOk
     THEN /\ UNCHANGED files
          /\ Fail("buildYaml", "manifest")
     ELSE \/ /\ files' = files \cup {<<"docker-compose.yaml", 0, 0>>}
             /\ Goto("buildScript")
          \/ /\ UNCHANGED files
             /\ Fail("buildYaml", "io")

\* buildStartScript whose error the pipeline logs and then ignores
buildStartScriptIgnored ==
  /\ pc = "buildScript"
  /\ UNCHANGED <<Format, manifest, sidecar, archive, store, updates, ret,
                 imageOps, fs0, runs, prev>>
  /\ UNCHANGED <<sanVars, mqVars, volVars, nameVars, envVars, readers>>
  /\ stages' = Append(stages, "buildScript")
  /\ \/ /\ files' = files \cup {<<"run.sh", 0, 0>>}
        /\ Goto("zip")
     \/ /\ UNCHANGED files
        /\ pc' = "zip"
        /\ err' = [stage |-> "buildScript", cause |-> "io"]
        /\ fsErr' = FSNext

buildStartScript ==
  /\ pc = "buildScript"
  /\ UNCHANGED <<Format, manifest, sidecar, archive, store, updates, ret,
                 imageOps, fs0, runs, prev>>
  /\ UNCHANGED <<sanVars, mqVars, volVars, nameVars, envVars, readers>>
  /\ stages' = Append(stages, "buildScript")
  /\ \/ /\ files' = files \cup {<<"run.sh", 0, 0>>}
        /\ Goto("zip")
     \/ /\ UNCHANGED files
        /\ Fail("buildScript", "io")

\* zip that logs a failure to write the sidecar and returns nil
zipSidecarOptional ==
  /\ pc = "zip"
  /\ UNCHANGED <<Format, manifest, files, store, updates, ret, imageOps, fs0,
                 runs, prev>>
  /\ UNCHANGED <<sanVars, mqVars, volVars, nameVars, envVars, readers>>
  /\ \/ /\ stages' = Append(stages, "zip")
        /\ archive' \in {archive, PartArchive}
        /\ UNCHANGED sidecar
        /\ Fail("zip", "io")
     \/ /\ stages' = stages \o <<"zip", "md5">>
        /\ archive' = [state |-> "full", manifest |-> manifest, files |-> files]
        /\ \/ /\ manifest.exists
              /\ sidecar' = Sum(Md5(manifest.doc))
           \/ sidecar' \in {sidecar, EmptySidecar}
        /\ Goto("updateSuccess")

\* zip: util.Zip of the workspace, then md5sum metadata.json > metadata.json.md5
zip ==
  /\ pc = "zip"
  /\ UNCHANGED <<Format, manifest, files, store, updates, ret, imageOps, fs0,
                 runs, prev>>
  /\ UNCHANGED <<sanVars, mqVars, volVars, nameVars, envVars, readers>>
  /\ \/ /\ stages' = Append(stages, "zip")
        /\ archive' \in {archive, PartArchive}
        /\ UNCHANGED sidecar
        /\ Fail("zip", "io")
     \/ /\ stages' = stages \o <<"zip", "md5">>
        /\ archive' = [state |-> "full", manifest |-> manifest, files |-> files]
        /\ \/ /\ manifest.exists
              /\ sidecar' = Sum(Md5(manifest.doc))
              /\ Goto("updateSuccess")
           \/ /\ sidecar' \in {sidecar, EmptySidecar}
              /\ Fail("md5", "io")

\* the last statement of the pipeline: updateStatus("success"), its error returned
UpdateSuccess ==
  /\ pc = "updateSuccess"
  /\ UNCHANGED <<Format, manifest, sidecar, archive, files, stages, imageOps,
                 fs0, runs, prev>>
  /\ UNCHANGED <<sanVars, mqVars, volVars, nameVars, envVars, readers>>
  /\ \E ok \in BOOLEAN :
       /\ updateStatus("success", ok)
       /\ IF ok
          THEN /\ pc' = "done"
               /\ ret' = "nil"
               /\ UNCHANGED <<err, fsErr>>
          ELSE /\ Fail("updateStatus", "status")
               /\ UNCHANGED ret

\* Run, after the pipeline returned an error: updateStatus("failed"); return err
RunFailed ==
  /\ pc = "failed"
  /\ UNCHANGED <<Format, manifest, sidecar, archive, files, stages, imageOps,
                 err, fs0, fsErr, runs, prev>>
  /\ UNCHANGED <<sanVars, mqVars, volVars, nameVars, envVars, readers>>
  /\ \E ok \in BOOLEAN : updateStatus("failed", ok)
  /\ ret' = "err"
  /\ pc' = "callback"

\* the dispatcher, after Run returned an error: ErrorCallBack
ErrorCallBack ==
  /\ pc = "callback"
  /\ UNCHANGED <<Format, manifest, sidecar, archive, files, ret, stages,
                 imageOps, err, fs0, fsErr, runs, prev>>
  /\ UNCHANGED <<sanVars, mqVars, volVars, nameVars, envVars, readers>>
  /\ \E ok \in BOOLEAN : updateStatus("failed", ok)
  /\ pc' = "done"

(***************************************************************************)
(* Between two runs the owner of the workspace may change it.              *)
(***************************************************************************)
Outside ==
  /\ pc \in {"idle", "done"}
  /\ UNCHANGED <<Format, store, updates, ret, stages, imageOps, err, fs0, fsErr,
                 runs>>
  /\ UNCHANGED <<sanVars, mqVars, volVars, nameVars, envVars, readers>>
  /\ runs < MaxRuns
  /\ pc' = "idle"
  /\ prev' = IF pc = "done"
             THEN [ret |-> ret, err |-> err, touched |-> TRUE, fs |-> FS]
             ELSE [prev EXCEPT !.touched = TRUE]

EditManifest ==
  /\ Outside
  /\ UNCHANGED <<sidecar, archive, files>>
  /\ \E d \in DocIds : manifest' = File(d) /\ manifest' # manifest

RemoveManifest ==
  /\ Outside
  /\ UNCHANGED <<sidecar, archive, files>>
  /\ manifest.exists
  /\ manifest' = NoManifest

RemoveArchive ==
  /\ Outside
  /\ UNCHANGED <<manifest, sidecar, files>>
  /\ archive # NoArchive
  /\ archive' = NoArchive

NextOrch ==
  \/ Run
  \/ IsLatest
  \/ CachedSuccess
  \/ CleanSourceDir
  \/ saveApps
  \/ savePlugins
  \/ saveComponents
  \/ buildDockerComposeYaml
  \/ buildStartScript
  \/ zip
  \/ UpdateSuccess
  \/ RunFailed
  \/ ErrorCallBack
  \/ EditManifest
  \/ RemoveManifest
  \/ RemoveArchive

(***************************************************************************)
(* The name sanitizer.  A string is a sequence of code points.             *)
(***************************************************************************)
\* the separator of unicode2zh: strings.Split(uText, `\\u`)
EscapeMarker == <<92, 92, 117>>

\* index of the first occurrence of sep in s, 0 when there is none
IndexOf(s, sep) ==
  LET hits == {i \in 1..(Len(s) - Len(sep) + 1) :
                 SubSeq(s, i, i + Len(sep) - 1) = sep}
  IN IF hits = {} THEN 0 ELSE CHOOSE i \in hits : \A j \in hits : i <= j

RECURSIVE Split(_, _)
Split(s, sep) ==
  LET i == IndexOf(s, sep)
  IN IF i = 0 THEN <<s>>
     ELSE <<SubSeq(s, 1, i - 1)>> \o Split(SubSeq(s, i + Len(sep), Len(s)), sep)

\* len(string): the number of UTF-8 bytes
ByteLen(r) == IF r < 128 THEN 1 ELSE IF r < 2048 THEN 2 ELSE IF r < 65536 THEN 3 ELSE 4

RECURSIVE ByteLenSeq(_)
ByteLenSeq(s) == IF s = <<>> THEN 0 ELSE ByteLen(Head(s)) + ByteLenSeq(Tail(s))

HexVal(c) ==
  IF c >= 48 /\ c <= 57 THEN c - 48
  ELSE IF c >= 97 /\ c <= 102 THEN c - 87
  ELSE IF c >= 65 /\ c <= 70 THEN c - 55
  ELSE -1

RECURSIVE HexNum(_, _)
HexNum(ds, acc) == IF ds = <<>> THEN acc ELSE HexNum(Tail(ds), 16 * acc + HexVal(Head(ds)))

\* strconv.ParseInt(pre, 16, 32) of the first four bytes of a part
ParseInt16(part) ==
  LET ascii  == Len(part) >= 4 /\ \A i \in 1..4 : part[i] < 128
      pre    == SubSeq(part, 1, 4)
      signed == ascii /\ pre[1] \in {43, 45}
      ds     == IF signed THEN Tail(pre) ELSE pre
      ok     == ascii /\ \A i \in 1..Len(ds) : HexVal(ds[i]) >= 0
      mag    == IF ok THEN HexNum(ds, 0) ELSE 0
  IN [ok |-> ok, val |-> IF signed /\ pre[1] = 45 THEN 0 - mag ELSE mag]

\* fmt.Sprintf("%c", zh)
Chr(v) == IF v < 0 \/ (v >= 55296 /\ v <= 57343) THEN 65533 ELSE v

\* unicode.IsSpace
IsSpace(r) ==
  \/ r \in {9, 10, 11, 12, 13, 32, 133, 160, 5760, 8232, 8233, 8239, 8287, 12288}
  \/ (r >= 8192 /\ r <= 8202)

RECURSIVE TrimLeft(_)
TrimLeft(s) == IF s # <<>> /\ IsSpace(Head(s)) THEN TrimLeft(Tail(s)) ELSE s

RECURSIVE TrimRight(_)
TrimRight(s) ==
  IF s # <<>> /\ IsSpace(s[Len(s)]) THEN TrimRight(SubSeq(s, 1, Len(s) - 1)) ELSE s

TrimSpace(s) == TrimRight(TrimLeft(s))

\* what one part after an escape marker adds to the result
DecodePart(part) ==
  IF ByteLenSeq(part) > 3
  THEN LET n == ParseInt16(part)
       IN IF ~n.ok THEN part
          ELSE <<Chr(n.val)>> \o SubSeq(part, 5, Len(part))
  ELSE <<>>

unicode2zh(uText) ==
  LET parts == Split(uText, EscapeMarker)
  IN TrimSpace(Head(parts)
               \o Flatten([i \in 1..(Len(parts) - 1) |-> DecodePart(parts[i + 1])]))

\* unicode.Is(unicode.Han, r): the ideograph blocks
IsHan(r) ==
  \/ (r >= 13312 /\ r <= 19903)
  \/ (r >= 19968 /\ r <= 40959)
  \/ (r >= 63744 /\ r <= 64109)

\* pinyin.LazyConvert(string(r), nil) joined: the romanization of one ideograph
Pinyin(r) ==
  CASE r = 27979 -> <<99, 101>>
    [] r = 35797 -> <<115, 104, 105>>
    [] OTHER -> <<>>

\* regexp.Match("[a-zA-Z0-9._-]", []byte{byte(r)})
Matched(r) ==
  LET b == r % 256
  IN \/ (b >= 97 /\ b <= 122)
     \/ (b >= 65 /\ b <= 90)
     \/ (b >= 48 /\ b <= 57)
     \/ b \in {46, 95, 45}

ComposeRune(r) ==
  IF IsHan(r) THEN Pinyin(r)
  ELSE IF ~Matched(r) THEN <<95>>
  ELSE <<r>>

composeName(uText) ==
  LET str == unicode2zh(uText)
  IN Flatten([i \in 1..Len(str) |-> ComposeRune(str[i])])

\* the names composeName is called with: every string of up to MaxNameLen
\* of these code points, and three escaped names
MaxNameLen == 3

Runes == { 32,       \* space
           46,       \* .
           64,       \* @
           97,       \* a
           233,      \* e with acute accent: one byte, no ASCII
           353,      \* s with caron: low byte 97, a
           8364,     \* euro sign: low byte 172
           12354,    \* hiragana a: low byte 66, B
           27979 }   \* an ideograph (ce)

EscapedNames ==
  { <<92, 92, 117, 48, 49, 54, 49>>,          \* \\u0161, s with caron
    <<92, 92, 117, 54, 100, 52, 98, 97>>,     \* \\u6d4b and a
    <<97, 92, 92, 117, 50, 48, 97, 99>> }     \* a and \\u20ac, the euro sign

InputNames ==
  UNION { [1..n -> Runes] : n \in 0..MaxNameLen } \cup EscapedNames

InitSan ==
  /\ text \in InputNames
  /\ res = <<>>
  /\ spc = "call"

\* the call of composeName on the argument
CallComposeName ==
  /\ spc = "call"
  /\ res' = composeName(text)
  /\ spc' = "return"
  /\ UNCHANGED <<text, orchVars, nameVars, envVars, volVars, mqVars>>

NextSan == CallComposeName

(***************************************************************************)
(* dockerCompose.buildServiceNames and the service keys of the descriptor. *)
(***************************************************************************)
MaxComponents == 3

ShareIds == 1..MaxComponents

\* display names of the manifests that are checked
CNames ==
  { <<97>>,                              \* a
    <<97, 45, 48, 48, 48, 48>>,          \* a-0000
    <<27979, 35797>>,                    \* two ideographs (ce, shi)
    <<92, 92, 117, 54, 100, 52, 98, 92, 92, 117, 56, 98, 100, 53>>,
                                         \* the same two, escaped
    <<99, 101, 115, 104, 105>>,          \* ceshi
    <<32, 97, 32, 98>> }                 \* " a b"

\* util.NewUUID()[0:4]
SuffixLen == 4

\* the uuid prefixes that are drawn: hexadecimal digits
Suffixes == { <<48, 48, 48, 48>>, <<48, 48, 102, 102>> }

Manifests ==
  UNION { [1..n -> [id : ShareIds, cname : CNames]] : n \in 0..MaxComponents }

InitNames ==
  /\ comps \in Manifests
  /\ npc = "names"
  /\ idx = 1
  /\ names = <<>>
  /\ set = {}
  /\ services = {}
  /\ edges = <<>>
  /\ dependsOn = <<>>

\* GetServiceName: the map lookup, "" for a missing key
GetServiceName(shareServiceUUID) ==
  IF shareServiceUUID \in DOMAIN names THEN names[shareServiceUUID] ELSE <<>>

\* the name buildServiceNames gives a component, sfx being the uuid drawn
UniqueName(name, sfx) ==
  IF name \in set THEN name \o <<45>> \o sfx ELSE name

\* one iteration of the loop of buildServiceNames
buildServiceNames ==
  /\ npc = "names"
  /\ idx <= Len(comps)
  /\ UNCHANGED <<sanVars, mqVars, volVars, orchVars, envVars, comps, npc, services, edges, dependsOn>>
  /\ \E sfx \in Suffixes :
       LET cpt  == comps[idx]
           name == UniqueName(composeName(cpt.cname), sfx)
       IN /\ set' = set \cup {name}
          /\ names' = [i \in DOMAIN names \cup {cpt.id} |->
                         IF i = cpt.id THEN name ELSE names[i]]
  /\ idx' = idx + 1

\* build: serviceNames is complete; buildDockerComposeYaml starts its loop
build ==
  /\ npc = "names"
  /\ idx > Len(comps)
  /\ UNCHANGED <<sanVars, mqVars, volVars, orchVars, envVars, comps, names, set, services,
                 edges, dependsOn>>
  /\ npc' = "services"
  /\ idx' = 1

\* the dependency edge lists a component is read with: share ids, 0 being the
\* id of no component
MaxEdges == 1

EdgeLists == UNION { [1..n -> ShareIds \cup {0}] : n \in 0..MaxEdges }

\* getDependedService: service_cname of the first app with that share id
getDependedService(key) ==
  LET hits == {i \in 1..Len(comps) : comps[i].id = key}
  IN IF hits = {} THEN <<>>
     ELSE comps[CHOOSE i \in hits : \A j \in hits : i <= j].cname

\* depServices after the loop over dep_service_map_list, from the k-th edge on
RECURSIVE depServices(_, _)
depServices(deps, k) ==
  IF k > Len(deps) THEN <<>>
  ELSE LET svc == getDependedService(deps[k])
       IN (IF svc # <<>> THEN <<composeName(svc)>> ELSE <<>>)
          \o depServices(deps, k + 1)

\* one iteration of the loop of buildDockerComposeYaml: y.Services[appName] = service
AddService ==
  /\ npc = "services"
  /\ idx <= Len(comps)
  /\ UNCHANGED <<sanVars, mqVars, volVars, orchVars, envVars, comps, npc, names, set>>
  /\ services' = services \cup {GetServiceName(comps[idx].id)}
  /\ \E deps \in EdgeLists :
       /\ edges' = deps
       /\ dependsOn' = depServices(deps, 1)
  /\ idx' = idx + 1

\* the descriptor is complete
Marshal ==
  /\ npc = "services"
  /\ idx > Len(comps)
  /\ UNCHANGED <<sanVars, mqVars, volVars, orchVars, envVars, comps, idx, names, set, services,
                 edges, dependsOn>>
  /\ npc' = "done"

NextNames ==
  \/ buildServiceNames
  \/ build
  \/ AddService
  \/ Marshal

(***************************************************************************)
(* The environment of a service: buildDockerComposeYaml, before the        *)
(* rendering pass.  An environment is a function from keys to values; an   *)
(* entry list is a sequence of <<attr_name, attr_value>>.  The fields of   *)
(* an app record that only its own iteration reads (ports, memory, private *)
(* entries, dependency edges) are drawn when the loop reaches the record;  *)
(* the public entries, which the dependents read too, are fixed from the   *)
(* start.  The share id of the i-th record is i.                           *)
(***************************************************************************)
MaxApps == 3
MaxDeps == 2

Placeholder == "**None**"

PrivateLists ==
  { <<>>,
    << <<"K1", "v1">> >>,
    << <<"K1", Placeholder>> >>,
    << <<"K2", "v1">>, <<"K2", "v2">> >>,
    << <<"K1", "${K2}">>, <<"K2", "${MEMORY_SIZE}">> >> }

PublicLists ==
  { <<>>,
    << <<"K1", "v2">> >>,
    << <<"K2", "v3">> >>,
    << <<"K1", Placeholder>> >>,
    << <<"MEMORY_SIZE", "v2">>, <<"PORT", "v3">> >> }

PortLists == { <<>>, <<"80", "443">> }

Memories == {128}

\* util.NewUUID()[:8]
Tokens == {"0a1b2c3d", "ffffffff"}

NoApp == [ports |-> <<>>, memory |-> 0, private |-> <<>>, deps |-> <<>>,
          tokens |-> <<>>]

\* envutil.GetMemoryType: the memory-class label of a memory allocation
GetMemoryType(memory) == IF memory <= 128 THEN "micro" ELSE "small"

NoEnv == [k \in {} |-> ""]

\* envs[key] = value
Put(env, k, v) == [x \in DOMAIN env \cup {k} |-> IF x = k THEN v ELSE env[x]]

\* for k, v := range from { env[k] = v }
PutAll(env, from) ==
  [x \in DOMAIN env \cup DOMAIN from |-> IF x \in DOMAIN from THEN from[x] ELSE env[x]]

\* the seeded entries: PORT (first port, when there is one) and MEMORY_SIZE
SeedEnv(app) ==
  Put(IF Len(app.ports) > 0 THEN Put(NoEnv, "PORT", app.ports[1]) ELSE NoEnv,
      "MEMORY_SIZE", GetMemoryType(app.memory))

\* the loop over service_env_map_list; tokens[i] is the uuid drawn at entry i
RECURSIVE PrivateEnv(_, _, _, _)
PrivateEnv(env, list, tokens, i) ==
  IF i > Len(list) THEN env
  ELSE PrivateEnv(Put(env, list[i][1],
                      IF list[i][2] = Placeholder THEN tokens[i] ELSE list[i][2]),
                  list, tokens, i + 1)

\* the loop over service_connect_info_map_list
RECURSIVE ConnectInfoEnv(_, _, _)
ConnectInfoEnv(env, list, i) ==
  IF i > Len(list) THEN env
  ELSE ConnectInfoEnv(Put(env, list[i][1], list[i][2]), list, i + 1)

getPublicEnvByKey(serviceKey) ==
  LET hits == {i \in 1..Len(apps) : apps[i].id = serviceKey}
  IN IF hits = {} THEN NoEnv
     ELSE LET first == CHOOSE i \in hits : \A j \in hits : i <= j
          IN ConnectInfoEnv(NoEnv, apps[first].public, 1)

\* the loop over dep_service_map_list
RECURSIVE DepEnv(_, _, _)
DepEnv(env, deps, i) ==
  IF i > Len(deps) THEN env
  ELSE DepEnv(PutAll(env, getPublicEnvByKey(deps[i])), deps, i + 1)

\* the app's public entries written before its private entries
OwnEnvPublicFirst(app, public) ==
  PrivateEnv(ConnectInfoEnv(SeedEnv(app), public, 1), app.private, app.tokens, 1)

\* the environment of the app itself: seeds, private entries, public entries
OwnEnv(app, public) ==
  ConnectInfoEnv(PrivateEnv(SeedEnv(app), app.private, app.tokens, 1), public, 1)

\* the merge with the entries of the dependencies kept behind the app's own
MergedEnvKeepOwn(app, public) ==
  LET KeepOwn(env, from) ==
        [x \in DOMAIN env \cup DOMAIN from |->
           IF x \in DOMAIN env THEN env[x] ELSE from[x]]
      RECURSIVE Fold(_, _)
      Fold(env, i) ==
        IF i > Len(app.deps) THEN env
        ELSE Fold(KeepOwn(env, getPublicEnvByKey(app.deps[i])), i + 1)
  IN Fold(OwnEnv(app, public), 1)

MergedEnv(app, public) == DepEnv(OwnEnv(app, public), app.deps, 1)

\* the keys a value of the model can refer to
EnvKeys == {"PORT", "MEMORY_SIZE", "K1", "K2"}

\* the text of a reference to key k
Ref(k) == "${" \o k \o "}"

\* util.ParseVariable: the references of value replaced by the values the map
\* holds for them now; a reference to a key the map does not hold stays.  A
\* value of the model is one reference or holds none.
ParseVariable(value, configs) ==
  IF \E k \in EnvKeys \cap DOMAIN configs : value = Ref(k)
  THEN configs[CHOOSE k \in EnvKeys \cap DOMAIN configs : value = Ref(k)]
  ELSE value

\* the orders in which a range loop can visit the keys of a map
RECURSIVE Orders(_)
Orders(keys) ==
  IF keys = {} THEN { <<>> }
  ELSE UNION { { <<k>> \o o : o \in Orders(keys \ {k}) } : k \in keys }

\* the rendering loop, visiting the keys in the given order: each value is
\* rendered against the map as the earlier visits left it
RECURSIVE RenderInOrder(_, _)
RenderInOrder(env, order) ==
  IF order = <<>> THEN env
  ELSE RenderInOrder(Put(env, Head(order), ParseVariable(env[Head(order)], env)),
                     Tail(order))

DepLists ==
  UNION { [1..n -> 1..(MaxApps + 1)] : n \in 0..MaxDeps }

InitEnv ==
  /\ \E n \in 1..MaxApps :
       apps \in [1..n -> {[id |-> i, public |-> p] : i \in 1..n, p \in PublicLists}]
  /\ \A i \in 1..Len(apps) : apps[i].id = i
  /\ epc = "loop"
  /\ eidx = 1
  /\ cur = NoApp
  /\ envs = NoEnv

\* one iteration of the loop over the apps, up to the rendering pass
MergeEnv ==
  /\ epc = "loop"
  /\ eidx <= Len(apps)
  /\ UNCHANGED <<sanVars, mqVars, volVars, orchVars, nameVars, apps, eidx>>
  /\ \E ports \in PortLists, memory \in Memories, private \in PrivateLists,
        deps \in DepLists :
       \E tokens \in [1..Len(private) -> Tokens] :
         /\ \A i \in 1..Len(private) :
              private[i][2] # Placeholder => tokens[i] = CHOOSE t \in Tokens : TRUE
         /\ cur' = [ports |-> ports, memory |-> memory, private |-> private,
                    deps |-> deps, tokens |-> tokens]
  /\ envs' = MergedEnv(cur', apps[eidx].public)
  /\ epc' = "render"

\* the rendering pass of the iteration: for key, value := range envs
RenderEnv ==
  /\ epc = "render"
  /\ UNCHANGED <<sanVars, mqVars, volVars, orchVars, nameVars, apps, eidx, cur>>
  /\ \E order \in Orders(DOMAIN envs) : envs' = RenderInOrder(envs, order)
  /\ epc' = "store"

\* y.Services[appName] = service; the loop goes on to the next app
StoreService ==
  /\ epc = "store"
  /\ UNCHANGED <<sanVars, mqVars, volVars, orchVars, nameVars, apps>>
  /\ cur' = NoApp
  /\ envs' = NoEnv
  /\ eidx' = eidx + 1
  /\ epc' = "loop"

\* y.Volumes and yaml.Marshal: every app has its service
MarshalEnv ==
  /\ epc = "loop"
  /\ eidx > Len(apps)
  /\ UNCHANGED <<sanVars, mqVars, volVars, orchVars, nameVars, apps, eidx, cur, envs>>
  /\ epc' = "done"

NextEnv ==
  \/ MergeEnv
  \/ RenderEnv
  \/ StoreService
  \/ MarshalEnv

(***************************************************************************)
(* The volumes of the descriptor: buildVolumes, buildVolume and            *)
(* GetGlobalVolumes.  Share ids, names and binds are strings; a mount path *)
(* is kept as its segments so that path.Join can be computed.  The name of *)
(* a component is the one the registry gave it (GetServiceName).           *)
(***************************************************************************)
MaxVolComps == 2
MaxVols == 1
MaxMounts == 2

VolShareIds == {"s", "sb_"}
VolServiceNames == {"a", "a_b"}
VolumeNames == {"b_c", "c"}
ConfigFileVolumeType == "config-file"
VolumeTypes == {ConfigFileVolumeType, "share-file"}

\* a path as its segments
Path(abs, segs) == [abs |-> abs, segs |-> segs]

RECURSIVE JoinSegs(_)
JoinSegs(segs) ==
  IF segs = <<>> THEN ""
  ELSE IF Len(segs) = 1 THEN segs[1]
  ELSE segs[1] \o "/" \o JoinSegs(Tail(segs))

\* the text of a path
PathString(p) == (IF p.abs THEN "/" ELSE "") \o JoinSegs(p.segs)

\* path.Clean on segments: empty and "." segments dropped, ".." resolved
RECURSIVE CleanSegs(_, _, _)
CleanSegs(segs, out, rooted) ==
  IF segs = <<>> THEN out
  ELSE LET seg == Head(segs)
       IN CleanSegs(Tail(segs),
                    IF seg = "" \/ seg = "." THEN out
                    ELSE IF seg = ".."
                         THEN IF out # <<>> /\ out[Len(out)] # ".."
                              THEN SubSeq(out, 1, Len(out) - 1)
                              ELSE IF rooted THEN out ELSE Append(out, "..")
                    ELSE Append(out, seg),
                    rooted)

\* path.Join(serviceName, mountPath): empty elements are ignored, the rest is
\* joined by "/" and cleaned
PathJoin(serviceName, p) ==
  LET rooted == serviceName = "" /\ p.abs
      segs == CleanSegs((IF serviceName = "" THEN <<>> ELSE <<serviceName>>) \o p.segs,
                        <<>>, rooted)
  IN IF rooted THEN "/" \o JoinSegs(segs)
     ELSE IF segs = <<>> THEN "." ELSE JoinSegs(segs)

MountPaths == { Path(TRUE, <<"etc", "conf">>), Path(TRUE, <<"data">>) }
MountDirs == {"/mnt"}

\* ServiceVolumeMapList entries
Volumes ==
  [name : VolumeNames, path : MountPaths, type : VolumeTypes]

\* MntReleationList entries
Mounts ==
  [uuid : VolShareIds, name : VolumeNames, dir : MountDirs]

SeqsUpTo(S, n) == UNION { [1..k -> S] : k \in 0..n }

\* fmt.Sprintf("%s:%s", source, target)
Bind(source, target) == source \o ":" \o target

\* buildVolume that does not tell a config file from a named volume
buildVolumeAllNamed(serviceName, volume) ==
  IF volume.type = ConfigFileVolumeType
  THEN LET configFilePath == "./" \o PathJoin(serviceName, volume.path)
       IN <<Bind(configFilePath, PathString(volume.path)), configFilePath, FALSE>>
  ELSE LET volumeName == serviceName \o "_" \o volume.name
       IN <<Bind(volumeName, PathString(volume.path)), volumeName, FALSE>>

\* buildVolume: the bind, the compose name of the volume, and isConfig
buildVolume(serviceName, volume) ==
  IF volume.type = ConfigFileVolumeType
  THEN LET configFilePath == "./" \o PathJoin(serviceName, volume.path)
       IN <<Bind(configFilePath, PathString(volume.path)), configFilePath, TRUE>>
  ELSE LET volumeName == serviceName \o "_" \o volume.name
       IN <<Bind(volumeName, PathString(volume.path)), volumeName, FALSE>>

\* the key of volumeMaps
VolumeKey(uuid, name) == uuid \o name

NoMap == [k \in {} |-> ""]

\* v := m[key] of a Go map of strings: "" when the key is missing
Lookup(map, key) == IF key \in DOMAIN map THEN map[key] ELSE ""

InitVol ==
  /\ \E n \in 1..MaxVolComps :
       vcomps \in [1..n -> [id : VolShareIds, name : VolServiceNames,
                            volumes : SeqsUpTo(Volumes, MaxVols),
                            mounts : SeqsUpTo(Mounts, MaxMounts)]]
  /\ \A i, j \in 1..Len(vcomps) : i # j => vcomps[i].id # vcomps[j].id
  /\ \A i \in 1..Len(vcomps) :
       \A k \in 1..Len(vcomps[i].volumes) :
         vcomps[i].volumes[k].path.segs[1] = "etc"
           <=> vcomps[i].volumes[k].type = ConfigFileVolumeType
  /\ vpc = "own"
  /\ vidx = 1
  /\ volumeMaps = NoMap
  /\ volumeList = <<>>
  /\ componentVolumes = NoMap
  /\ globalVolumes = {}

\* the loop over the component's own volumes, from the k-th on; st holds the
\* binds of the component, volumeList and volumeMaps
RECURSIVE OwnVolumesFrom(_, _, _)
OwnVolumesFrom(cpt, k, st) ==
  IF k > Len(cpt.volumes) THEN st
  ELSE LET vol == cpt.volumes[k]
           b == buildVolume(cpt.name, vol)
       IN OwnVolumesFrom(cpt, k + 1,
            [volumes |-> Append(st.volumes, b[1]),
             list |-> IF b[2] # "" /\ ~b[3] THEN Append(st.list, b[2]) ELSE st.list,
             maps |-> IF b[2] # "" THEN Put(st.maps, VolumeKey(cpt.id, vol.name), b[2])
                      ELSE st.maps])

\* the loop over the component's mounts of other components' volumes, from
\* the k-th on; binds is componentVolumes[cpt.ServiceShareID]
RECURSIVE DependentVolumesFrom(_, _, _)
DependentVolumesFrom(cpt, k, binds) ==
  IF k > Len(cpt.mounts) THEN binds
  ELSE LET dvol == cpt.mounts[k]
           vol == Lookup(volumeMaps, VolumeKey(dvol.uuid, dvol.name))
       IN DependentVolumesFrom(cpt, k + 1,
            IF vol = "" THEN binds ELSE Append(binds, Bind(vol, dvol.dir)))

\* one iteration of the first loop of buildVolumes
OwnVolumes ==
  /\ vpc = "own"
  /\ UNCHANGED <<sanVars, mqVars, orchVars, nameVars, envVars, vcomps, globalVolumes>>
  /\ LET cpt == vcomps[vidx]
         st == OwnVolumesFrom(cpt, 1, [volumes |-> <<>>, list |-> volumeList,
                                       maps |-> volumeMaps])
     IN /\ volumeList' = st.list
        /\ volumeMaps' = st.maps
        /\ componentVolumes' = Put(componentVolumes, cpt.id, st.volumes)
  /\ IF vidx < Len(vcomps)
     THEN vidx' = vidx + 1 /\ vpc' = vpc
     ELSE vidx' = 1 /\ vpc' = "dep"

\* one iteration of the second loop of buildVolumes
DependentVolumes ==
  /\ vpc = "dep"
  /\ UNCHANGED <<sanVars, mqVars, orchVars, nameVars, envVars, vcomps, volumeMaps, volumeList,
                 globalVolumes>>
  /\ LET cpt == vcomps[vidx]
     IN componentVolumes' =
          IF cpt.mounts = <<>> THEN componentVolumes
          ELSE Put(componentVolumes, cpt.id,
                   DependentVolumesFrom(cpt, 1, componentVolumes[cpt.id]))
  /\ IF vidx < Len(vcomps)
     THEN vidx' = vidx + 1 /\ vpc' = vpc
     ELSE vidx' = 0 /\ vpc' = "built"

GetGlobalVolumes ==
  /\ vpc = "built"
  /\ UNCHANGED <<sanVars, mqVars, orchVars, nameVars, envVars, vcomps, vidx, volumeMaps,
                 volumeList, componentVolumes>>
  /\ globalVolumes' = {volumeList[i] : i \in 1..Len(volumeList)}
  /\ vpc' = "done"

NextVol ==
  \/ OwnVolumes
  \/ DependentVolumes
  \/ GetGlobalVolumes

(***************************************************************************)
(* The scrape updater, Mq.  An endpoint carries a JSON document in its URL *)
(* field; a document is a set of <<key, value>> pairs and a value is a     *)
(* sequence of code points.  UpdateEndpoints extracts the "Addr" member of *)
(* each document, normalises the addresses and republishes the scrape      *)
(* configuration when the normalised list is not the stored one.           *)
(***************************************************************************)
MaxCalls == 3
MaxEndpoints == 2

Addresses == { <<97>>, <<32, 97>>, <<98>> }
EndpointDocs == { {<<"Addr", a>>} : a \in Addresses } \cup { {<<"Name", <<97>>>>} }
Endpoints == { [URL |-> d] : d \in EndpointDocs }
EndpointLists == UNION { [1..n -> Endpoints] : n \in 0..MaxEndpoints }

\* gjson.Get(json, path).String(): the member's value, "" when it is missing
GjsonGet(json, path) ==
  IF \E p \in json : p[1] = path
    THEN (CHOOSE p \in json : p[1] = path)[2]
    ELSE <<>>

\* the order of sort.Strings: byte-wise lexicographic
RECURSIVE StrLess(_, _)
StrLess(a, b) ==
  IF b = <<>> THEN FALSE
  ELSE IF a = <<>> THEN TRUE
  ELSE IF a[1] # b[1] THEN a[1] < b[1]
  ELSE StrLess(Tail(a), Tail(b))

\* the strings of a set, ascending
RECURSIVE Ascending(_)
Ascending(S) ==
  IF S = {} THEN <<>>
  ELSE LET least == CHOOSE x \in S : \A y \in S \ {x} : StrLess(x, y)
       IN  <<least>> \o Ascending(S \ {least})

\* utils.TrimAndSort: every URL trimmed, the list sorted, duplicates dropped
TrimAndSort(endpoints) ==
  Ascending({ TrimSpace(endpoints[n].URL) : n \in 1..Len(endpoints) })

\* utils.ArrCompare: true when the two lists hold the same strings in order
ArrCompare(arr1, arr2) ==
  /\ Len(arr1) = Len(arr2)
  /\ \A n \in 1..Len(arr1) : arr1[n] = arr2[n]

MqName == "mq"

toScrape(sorted) ==
  [ JobName     |-> MqName,
    MetricsPath |-> "/metrics",
    Targets     |-> [n \in 1..Len(sorted) |-> sorted[n]] ]

InitMq ==
  /\ sortedEndpoints = <<>>
  /\ scrapes = <<>>
  /\ mcalls = 0
  /\ lastCall = [endpoints |-> <<>>, published |-> FALSE]

\* the comparison skipped: every call stores and publishes
UpdateEndpointsAlways ==
  /\ mcalls < MaxCalls
  /\ \E endpoints \in EndpointLists :
       LET newEndpoints == [n \in 1..Len(endpoints) |->
                              [URL |-> GjsonGet(endpoints[n].URL, "Addr")]]
           newArr == TrimAndSort(newEndpoints)
       IN  /\ sortedEndpoints' = newArr
           /\ scrapes' = Append(scrapes, toScrape(newArr))
           /\ lastCall' = [endpoints |-> endpoints, published |-> TRUE]
  /\ mcalls' = mcalls + 1
  /\ UNCHANGED <<sanVars, orchVars, nameVars, envVars, volVars>>

UpdateEndpoints ==
  /\ mcalls < MaxCalls
  /\ \E endpoints \in EndpointLists :
       LET newEndpoints == [n \in 1..Len(endpoints) |->
                              [URL |-> GjsonGet(endpoints[n].URL, "Addr")]]
           newArr == TrimAndSort(newEndpoints)
       IN  IF ArrCompare(sortedEndpoints, newArr)
             THEN /\ lastCall' = [endpoints |-> endpoints, published |-> FALSE]
                  /\ UNCHANGED <<sortedEndpoints, scrapes>>
             ELSE /\ sortedEndpoints' = newArr
                  /\ scrapes' = Append(scrapes, toScrape(newArr))
                  /\ lastCall' = [endpoints |-> endpoints, published |-> TRUE]
  /\ mcalls' = mcalls + 1
  /\ UNCHANGED <<sanVars, orchVars, nameVars, envVars, volVars>>

NextMq == UpdateEndpoints

(***************************************************************************)
(* Specifications.                                                         *)
(***************************************************************************)
IdleOrch ==
  /\ Format = "docker-compose"
  /\ pc = "off"
  /\ manifest = NoManifest
  /\ sidecar = NoSidecar
  /\ archive = NoArchive
  /\ files = {}
  /\ store = "running"
  /\ updates = <<>>
  /\ ret = "none"
  /\ stages = <<>>
  /\ imageOps = <<>>
  /\ err = NoErr
  /\ fs0 = FS
  /\ fsErr = FS
  /\ runs = 0
  /\ prev = NoRun
  /\ readers = <<>>

IdleNames ==
  /\ comps = <<>>
  /\ npc = "off"
  /\ idx = 0
  /\ names = <<>>
  /\ set = {}
  /\ services = {}
  /\ edges = <<>>
  /\ dependsOn = <<>>

IdleEnv ==
  /\ apps = <<>>
  /\ epc = "off"
  /\ eidx = 0
  /\ cur = NoApp
  /\ envs = <<>>

IdleVol ==
  /\ vcomps = <<>>
  /\ vpc = "off"
  /\ vidx = 0
  /\ volumeMaps = <<>>
  /\ volumeList = <<>>
  /\ componentVolumes = <<>>
  /\ globalVolumes = {}

IdleSan ==
  /\ text = <<>>
  /\ res = <<>>
  /\ spc = "off"

IdleMq ==
  /\ sortedEndpoints = <<>>
  /\ scrapes = <<>>
  /\ mcalls = 0
  /\ lastCall = [endpoints |-> <<>>, published |-> FALSE]

Init == InitOrch /\ IdleNames /\ IdleEnv /\ IdleVol /\ IdleMq /\ IdleSan

Next == NextOrch

Spec == Init /\ [][Next]_vars

EnvInit == IdleOrch /\ IdleNames /\ InitEnv /\ IdleVol /\ IdleMq /\ IdleSan

SpecEnv == EnvInit /\ [][NextEnv]_vars

VolInit == IdleOrch /\ IdleNames /\ IdleEnv /\ InitVol /\ IdleMq /\ IdleSan

SpecVolumes == VolInit /\ [][NextVol]_vars

NamesInit == IdleOrch /\ InitNames /\ IdleEnv /\ IdleVol /\ IdleMq /\ IdleSan

SpecNames == NamesInit /\ [][NextNames]_vars

MqInit == IdleOrch /\ IdleNames /\ IdleEnv /\ IdleVol /\ InitMq /\ IdleSan

SpecMq == MqInit /\ [][NextMq]_vars

SanInit == IdleOrch /\ IdleNames /\ IdleEnv /\ IdleVol /\ IdleMq /\ InitSan

SpecSan == SanInit /\ [][NextSan]_vars

(***************************************************************************)
(* Claims about the orchestrator (checked under Spec).                     *)
(***************************************************************************)
Ended == pc \in {"failed", "callback", "done"}

PipelineStages ==
  {"clean", "saveApps", "savePlugins", "saveComponents", "buildYaml",
   "buildScript", "zip", "md5"}

Reported(status) == \E i \in 1..Len(updates) : updates[i][1] = status

\* C1: every run that reached its terminal state issued exactly one status
\* update, counting the updates of Run, of the pipeline and of ErrorCallBack.
C1_ExactlyOneStatusUpdate ==
  pc = "done" => Len(updates) = 1

\* C2: when every stage of a non-cached export succeeded and only the final
\* update to "success" failed, Run returns no error and no "failed" status is
\* written to the status store.
C2_StatusPersistFailureNotFatal ==
  (pc = "done" /\ err.stage = "updateStatus")
    => /\ ret = "nil"
       /\ ~(\E i \in 1..Len(updates) : updates[i] = <<"failed", TRUE>>)

\* C3: the freshness shortcut is taken only when the checksum sidecar
\* validates against the manifest AND the archive of the previous export
\* still exists.
C3_ShortcutNeedsSidecarAndArchive ==
  pc = "cached" => (sidecar.exists /\ Md5sumCheck /\ archive.state # "nofile")

\* C4: a run that follows a successful run, with the manifest and the archive
\* unchanged and present, mutates nothing in the filesystem (no stage past the
\* freshness check runs, no image request is issued) and reports "success".
C4_SecondRunIdempotent ==
  (/\ runs >= 2
   /\ pc \notin {"idle"}
   /\ prev.ret = "nil"
   /\ ~prev.touched
   /\ fs0.manifest.exists
   /\ fs0.archive.state = "full")
    => /\ FS = fs0
       /\ imageOps = <<>>
       /\ stages \in {<<>>, <<"isLatest">>}
       /\ err = NoErr
       /\ pc = "done" => /\ ret = "nil"
                         /\ Len(updates) = 1
                         /\ updates[1][1] = "success"

C4_Witness ==
  /\ runs >= 2
  /\ pc = "done"
  /\ prev.ret = "nil"
  /\ ~prev.touched
  /\ fs0.manifest.exists
  /\ fs0.archive.state = "full"
  /\ files # {}
  /\ stages = <<"isLatest">>
  /\ updates = << <<"success", TRUE>> >>

\* C5: once a stage of a non-cached export returned an error, no later stage
\* is executed, "success" is never reported, Run returns the error, and the
\* filesystem stays as the failing stage left it (nothing is rolled back).
C5_ErrorAbortsPipeline ==
  (Ended /\ err.stage \in PipelineStages)
    => /\ Last(stages) = err.stage
       /\ ~Reported("success")
       /\ FS = fsErr
       /\ pc \in {"callback", "done"} => ret = "err"
       /\ pc = "failed" => ret = "none"

C5_Witness ==
  /\ pc = "done"
  /\ err = [stage |-> "saveComponents", cause |-> "image"]
  /\ <<"dir", 1, 0>> \in files
  /\ <<"component-images", 0, 0>> \notin files
  /\ ret = "err"

\* C6: for a format that is neither rainbond-app nor docker-compose, Run
\* executes no stage (no freshness check, no change of the filesystem, no
\* image request), returns an error, and exactly one status update attempt is
\* made, with status "failed".
C6_UnsupportedFormat ==
  (Format \notin {"rainbond-app", "docker-compose"} /\ pc \notin {"idle"})
    => /\ stages = <<>>
       /\ imageOps = <<>>
       /\ FS = fs0
       /\ ret = "err"
       /\ pc \in {"callback", "done"}
       /\ pc = "done" => /\ Len(updates) = 1
                         /\ updates[1][1] = "failed"

C6_Witness ==
  /\ Format = "helm-chart"
  /\ pc = "done"
  /\ updates = << <<"failed", TRUE>> >>
  /\ store = "failed"

\* C7: when a run fails because the manifest is missing, unreadable, cannot be
\* parsed or holds zero app records, the workspace at the moment of failure is
\* what it was when the run started and no image request has been issued.
C7_ManifestFailureHasNoSideEffect ==
  (Ended /\ err.cause = "manifest")
    => /\ fsErr.manifest = fs0.manifest
       /\ fsErr.sidecar = fs0.sidecar
       /\ fsErr.files = fs0.files
       /\ imageOps = <<>>

\* the components of the manifest the run started with
RunComponents ==
  IF fs0.manifest.exists THEN Docs[fs0.manifest.doc].apps ELSE <<>>

\* the positions of the components with an image, in manifest order
WithImage ==
  SelectSeq([i \in 1..Len(RunComponents) |-> i],
            LAMBDA i : RunComponents[i].image # "")

\* pull and tag of each of these components, in order
Transfers(is) ==
  Flatten([n \in 1..Len(is) |-> << <<"pull", <<is[n]>> >>, <<"tag", <<is[n]>> >> >>])

\* C18: in a compose-format run no image is saved per component; a bulk save
\* is the last image request, issued once, after the pull and tag of every
\* component with an image, and names exactly these components in manifest
\* order; a run that got past saveComponents has issued it, and a run whose
\* last image request is a failed pull or tag has issued none.
C18_OneBulkSaveAfterAllTransfers ==
  Format = "docker-compose"
    => /\ \A n \in 1..Len(imageOps) :
            /\ imageOps[n][1] # "save"
            /\ imageOps[n][1] = "multisave"
                 => /\ n = Len(imageOps)
                    /\ imageOps[n][2] = WithImage
                    /\ SubSeq(imageOps, 1, n - 1) = Transfers(WithImage)
       /\ (\E n \in 1..Len(stages) : stages[n] = "buildYaml")
            => /\ imageOps # <<>>
               /\ Last(imageOps)[1] = "multisave"
       /\ (err.stage = "saveComponents" /\ err.cause = "image"
             /\ Last(imageOps)[1] \in {"pull", "tag"})
            => \A n \in 1..Len(imageOps) : imageOps[n][1] # "multisave"

C18_Witness ==
  /\ Format = "docker-compose"
  /\ pc = "done"
  /\ ret = "nil"
  /\ imageOps = << <<"pull", <<1>> >>, <<"tag", <<1>> >>, <<"pull", <<3>> >>,
                   <<"tag", <<3>> >>, <<"multisave", <<1, 3>> >> >>

StageOrder(format) ==
  IF format = "docker-compose"
  THEN <<"isLatest", "clean", "saveComponents", "buildYaml", "buildScript",
         "zip", "md5">>
  ELSE <<"isLatest", "clean", "saveApps", "savePlugins", "zip", "md5">>

\* the run went past the freshness check
NonCached == Len(stages) > 1

\* C20: a non-cached run that ends with success went through the stages of
\* its format in order (freshness check, clean, staging, for compose the
\* descriptor and the start script, archive, sidecar) and then reported
\* success, once, as its last step; a platform-native run has neither
\* descriptor nor start script; and a non-cached run has not reported success
\* before the archive and the sidecar were written.
C20_StageOrderOfSuccess ==
  /\ (pc = "done" /\ ret = "nil" /\ NonCached)
       => /\ stages = StageOrder(Format)
          /\ updates = << <<"success", TRUE>> >>
  /\ Format = "rainbond-app"
       => /\ \A n \in 1..Len(stages) : stages[n] \notin {"buildYaml", "buildScript"}
          /\ pc # "idle"
               => {<<"docker-compose.yaml", 0, 0>>, <<"run.sh", 0, 0>>} \cap files = {}
  /\ (NonCached /\ Reported("success") /\ pc # "idle")
       => /\ SubSeq(stages, Len(stages) - 1, Len(stages)) = <<"zip", "md5">>
          /\ archive.state = "full"
          /\ archive.manifest = manifest
          /\ manifest.exists
          /\ sidecar = Sum(Md5(manifest.doc))

C20_Witness ==
  /\ Format = "docker-compose"
  /\ pc = "done"
  /\ ret = "nil"
  /\ stages = StageOrder("docker-compose")
  /\ updates = << <<"success", TRUE>> >>
  /\ archive.state = "full"
  /\ {<<"docker-compose.yaml", 0, 0>>, <<"run.sh", 0, 0>>} \subseteq archive.files

\* the reader named r was called by the current run
Called(r) == \E n \in 1..Len(readers) : readers[n] = r

\* C21: a run reads the manifest in the one shape of its format: a compose
\* run never calls the reader of the legacy app list (parseApps), so it does
\* not fail for a structured manifest without app records, and a
\* platform-native run never calls the structured reader (parseApp).
C21_OneManifestShapePerRun ==
  /\ Format = "docker-compose"
       => /\ ~Called("parseApps")
          /\ (parseAppOk /\ ~parseAppsOk /\ pc = "failed") => err.cause # "manifest"
  /\ Format = "rainbond-app" => ~Called("parseApp")

\* the files of the workspace that are the content of a volume, as
\* <<component, volume>> positions of the manifest
VolumeFiles == { <<f[2], f[3]>> : f \in { g \in files : g[1] = "vol" } }

\* the run has cleaned the workspace and staged into it
Staging ==
  /\ pc # "idle"
  /\ manifest.exists
  /\ \E n \in 1..Len(stages) : stages[n] \in {"saveApps", "saveComponents"}

\* C26: in both staging paths a declared volume is written as a file under
\* the component's directory only when its type is config-file; a regular
\* volume never gives a file in the workspace.
C26_OnlyConfigFilesMaterialized ==
  Staging
    => \A v \in VolumeFiles :
         Docs[manifest.doc].apps[v[1]].vols[v[2]] = ConfigFileVolumeType

\* the freshness check of the current run has just been made
AtGate == stages = <<"isLatest">> /\ pc \in {"cached", "clean"}

\* the previous run returned success, its md5 file is as that run left it,
\* and the manifest has since been given another content
EditedAfterExport ==
  /\ runs >= 2
  /\ prev.ret = "nil"
  /\ prev.fs.sidecar.exists
  /\ sidecar = prev.fs.sidecar
  /\ prev.fs.manifest.exists
  /\ manifest.exists
  /\ manifest.doc # prev.fs.manifest.doc

\* C25 as stated: after a successful export, when the manifest is changed and
\* the md5 file is left as that export wrote it, the freshness check still
\* holds the manifest for unchanged and the next run takes the shortcut.
C25_EditedManifestTakenForUnchanged ==
  (AtGate /\ EditedAfterExport) => pc = "cached"

\* C25, amended: after a successful export, when the manifest is changed to
\* a content with another checksum and the md5 file is left as that export
\* wrote it, the freshness check fails: the next run does not take the
\* shortcut and goes on to the workspace clean.
C25_EditedManifestDetected ==
  (/\ AtGate
   /\ EditedAfterExport
   /\ Md5(manifest.doc) # Md5(prev.fs.manifest.doc))
    => pc = "clean"

C25_Witness ==
  /\ AtGate
  /\ EditedAfterExport
  /\ Md5(manifest.doc) # Md5(prev.fs.manifest.doc)
  /\ prev.touched
  /\ sidecar = Sum(Md5(prev.fs.manifest.doc))
  /\ archive = prev.fs.archive
  /\ archive.state = "full"
  /\ pc = "clean"

\* the stages between the workspace clean and the written md5 file
StagesBeforeSidecar ==
  {"saveApps", "savePlugins", "saveComponents", "buildYaml", "buildScript",
   "zip", "md5"}

\* C27: a run that went past the workspace clean and failed in a stage before
\* the md5 file was written leaves no checksum behind, and when nothing
\* outside changes the workspace the next run does not take the freshness
\* shortcut: its freshness check fails and it goes on to the workspace clean.
C27_NoShortcutAfterIncompleteExport ==
  /\ (pc \in {"failed", "callback", "done"} /\ err.stage \in StagesBeforeSidecar)
       => sidecar.sums = <<>>
  /\ (/\ AtGate
      /\ runs >= 2
      /\ prev.ret = "err"
      /\ prev.err.stage \in StagesBeforeSidecar
      /\ ~prev.touched)
       => pc = "clean"

\* the run before failed while writing the md5 file, which is left empty
\* beside a complete archive; this run has made its freshness check
C27_Witness ==
  /\ AtGate
  /\ runs >= 2
  /\ prev.ret = "err"
  /\ prev.err.stage = "md5"
  /\ ~prev.touched
  /\ sidecar = EmptySidecar
  /\ archive.state = "full"
  /\ files # {}
  /\ pc = "clean"

(***************************************************************************)
(* Claims about the name registry (checked under SpecNames).               *)
(***************************************************************************)
Positions == 1..Len(comps)

Identifier(i) == composeName(comps[i].cname)

FinalName(i) == GetServiceName(comps[i].id)

\* the share identifiers of the manifest are keys: no two components share one
IdsUnique == \A i, j \in Positions : i # j => comps[i].id # comps[j].id

\* name is identifier n followed by "-" and SuffixLen characters
IsSuffixed(name, n) ==
  /\ Len(name) = Len(n) + 1 + SuffixLen
  /\ SubSeq(name, 1, Len(n)) = n
  /\ name[Len(n) + 1] = 45

\* C8: after buildServiceNames, no two components with distinct share
\* identifiers have the same sanitized name, whatever suffixes were drawn.
C8_NamesCollisionFree ==
  npc \in {"services", "done"}
    => \A i, j \in Positions :
         comps[i].id # comps[j].id => FinalName(i) # FinalName(j)

\* C9: of two components that resolve to the same identifier, the later one is
\* named identifier-suffix, their final names differ and both are service keys
\* of the descriptor; the first component with that identifier keeps it
\* unchanged (so exactly one of the two keys is suffixed).
C9_LaterCollidingNameSuffixed ==
  (npc = "done" /\ IdsUnique)
    => \A i, j \in Positions :
         (i < j /\ Identifier(i) = Identifier(j))
           => /\ IsSuffixed(FinalName(j), Identifier(j))
              /\ FinalName(i) # FinalName(j)
              /\ {FinalName(i), FinalName(j)} \subseteq services
              /\ (\A k \in 1..(i - 1) : Identifier(k) # Identifier(i))
                   => FinalName(i) = Identifier(i)

\* the names the registry holds for the targets of the edges from the k-th
\* on, an edge to no component of the manifest giving none
RECURSIVE RegistryNames(_, _)
RegistryNames(deps, k) ==
  IF k > Len(deps) THEN <<>>
  ELSE (IF \E i \in Positions : comps[i].id = deps[k]
        THEN <<GetServiceName(deps[k])>> ELSE <<>>)
       \o RegistryNames(deps, k + 1)

\* C17: the depends_on list of a stored service holds, edge by edge, the name
\* the registry gave the component the edge points to, which is a key of the
\* services of the descriptor, also when that name was suffixed; an edge to no
\* component of the manifest gives no entry.
C17_DependsOnRegistryNames ==
  (npc \in {"services", "done"} /\ idx > 1 /\ IdsUnique)
    => /\ dependsOn = RegistryNames(edges, 1)
       /\ \A n \in 1..Len(dependsOn) :
            dependsOn[n] \in {FinalName(i) : i \in Positions}

(***************************************************************************)
(* Claims about the environment of a service (checked under SpecEnv).      *)
(***************************************************************************)
\* the dependency edges of the app whose environment has been merged
Edges == 1..Len(cur.deps)

\* the public environment of the target of edge e
Published(e) == getPublicEnvByKey(cur.deps[e])

\* the environment the app sets itself, from its private and public entries
SelfEnv ==
  ConnectInfoEnv(PrivateEnv(NoEnv, cur.private, cur.tokens, 1),
                 apps[eidx].public, 1)

\* C10 as stated: when B has an edge on A and A publishes K=v, the environment
\* of B before the rendering pass holds K=v, unless B's own private or public
\* entries set K, and then it holds B's own value for K.
C10_OwnValueWins ==
  epc = "render"
    => \A e \in Edges : \A k \in DOMAIN Published(e) :
         /\ k \in DOMAIN envs
         /\ envs[k] = IF k \in DOMAIN SelfEnv THEN SelfEnv[k] ELSE Published(e)[k]

\* C10, amended: when B has an edge on A and A publishes K=v, the environment
\* of B before the rendering pass holds K, whether or not B's own entries set
\* K, with the value v unless a later edge of B has a target that publishes K
\* too; the value is then the one published by the target of the last such
\* edge.
C10_DependencyValueWins ==
  epc = "render"
    => \A e \in Edges : \A k \in DOMAIN Published(e) :
         /\ k \in DOMAIN envs
         /\ LET last == CHOOSE f \in Edges :
                          /\ k \in DOMAIN Published(f)
                          /\ \A g \in Edges : k \in DOMAIN Published(g) => g <= f
            IN /\ last >= e
               /\ envs[k] = Published(last)[k]
               /\ last = e => envs[k] = Published(e)[k]

C10_Witness ==
  /\ epc = "render"
  /\ Len(cur.deps) = 2
  /\ cur.deps[1] # cur.deps[2]
  /\ cur.deps[2] # eidx
  /\ "K1" \in DOMAIN SelfEnv
  /\ "K1" \in DOMAIN Published(1)
  /\ "K1" \in DOMAIN Published(2)
  /\ Published(1)["K1"] # Published(2)["K1"]
  /\ SelfEnv["K1"] # Published(2)["K1"]
  /\ envs["K1"] = Published(2)["K1"]

\* the writes of the current iteration before the rendering pass, as
\* <<key, value>> pairs in the order the claim gives: the seeds, the private
\* entries, the public entries, then the public entries of the target of
\* each edge, edge after edge
SeedWrites ==
  (IF Len(cur.ports) > 0 THEN << <<"PORT", cur.ports[1]>> >> ELSE <<>>)
    \o << <<"MEMORY_SIZE", GetMemoryType(cur.memory)>> >>

PrivateWrites ==
  [n \in 1..Len(cur.private) |->
     <<cur.private[n][1],
       IF cur.private[n][2] = Placeholder THEN cur.tokens[n] ELSE cur.private[n][2]>>]

TargetWrites(e) ==
  IF \E a \in 1..Len(apps) : apps[a].id = cur.deps[e]
    THEN apps[CHOOSE a \in 1..Len(apps) : apps[a].id = cur.deps[e]].public
    ELSE <<>>

RECURSIVE EdgeWrites(_)
EdgeWrites(e) ==
  IF e > Len(cur.deps) THEN <<>> ELSE TargetWrites(e) \o EdgeWrites(e + 1)

Writes == SeedWrites \o PrivateWrites \o apps[eidx].public \o EdgeWrites(1)

\* C23: before the substitution pass the environment holds exactly the keys
\* written by the seeds, the private entries, the public entries and the
\* public entries of the edge targets, each with the value of its last writer
\* in that order; a component that is no edge target contributes nothing.
C23_LastWriterInFixedOrder ==
  epc = "render"
    => /\ DOMAIN envs = { Writes[n][1] : n \in 1..Len(Writes) }
       /\ \A k \in DOMAIN envs :
            LET last == CHOOSE n \in 1..Len(Writes) :
                          /\ Writes[n][1] = k
                          /\ \A o \in 1..Len(Writes) : Writes[o][1] = k => o <= n
            IN envs[k] = Writes[last][2]

\* K1 is set by a private and by a public entry and by no edge target, and
\* holds the public value; MEMORY_SIZE and PORT are seeded and set again by
\* the target of an edge; another component is the target of no edge
C23_Witness ==
  /\ epc = "render"
  /\ Len(apps) = 3
  /\ cur.ports # <<>>
  /\ cur.private = << <<"K1", "v1">> >>
  /\ apps[eidx].public = << <<"K1", "v2">> >>
  /\ \E a \in 1..Len(apps) :
       /\ a # eidx
       /\ apps[a].public = << <<"MEMORY_SIZE", "v2">>, <<"PORT", "v3">> >>
       /\ cur.deps = <<a>>
       /\ \E b \in 1..Len(apps) \ {a, eidx} : apps[b].public = << <<"K1", Placeholder>> >>
  /\ envs = [k \in {"K1", "MEMORY_SIZE", "PORT"} |->
               IF k = "K1" THEN "v2" ELSE IF k = "PORT" THEN "v3" ELSE "v2"]

\* the map of the current iteration as the merge left it, before the
\* rendering pass
Merged == MergedEnv(cur, apps[eidx].public)

\* C11: the rendering pass is deterministic: the map it leaves is the one
\* every visiting order of the keys gives on the merged map, also when a value
\* refers to a key whose own value is a reference.
C11_RenderOrderInsensitive ==
  epc = "store"
    => \A order \in Orders(DOMAIN Merged) : envs = RenderInOrder(Merged, order)

\* the merged map had no placeholder been replaced
RawMerged ==
  MergedEnv([cur EXCEPT !.tokens = [i \in DOMAIN cur.private |-> Placeholder]],
            apps[eidx].public)

\* C12: no value of the environment stored in a service is the placeholder:
\* every key whose entry (private, public or imported over an edge) is the
\* placeholder holds a generated 8-character token instead.
C12_NoPlaceholderInService ==
  epc = "store"
    => \A k \in DOMAIN envs :
         /\ envs[k] # Placeholder
         /\ RawMerged[k] = Placeholder => envs[k] \in Tokens

(***************************************************************************)
(* Claims about the volumes (checked under SpecVolumes).                   *)
(***************************************************************************)
VolPositions == 1..Len(vcomps)

\* the declared volumes as <<component, position in its volume list>>
Declared(type) ==
  {ck \in VolPositions \X (1..MaxVols) :
     /\ ck[2] <= Len(vcomps[ck[1]].volumes)
     /\ (vcomps[ck[1]].volumes[ck[2]].type = ConfigFileVolumeType) = (type = ConfigFileVolumeType)}

VolumeOf(ck) == vcomps[ck[1]].volumes[ck[2]]

\* ./<name>/<mount path without its leading slash>
ConfigFileSource(ck) ==
  "./" \o vcomps[ck[1]].name \o PathString(VolumeOf(ck).path)

\* <name>_<volume name>
RegularVolumeName(ck) == vcomps[ck[1]].name \o "_" \o VolumeOf(ck).name

\* C13: a config-file volume adds nothing to the global named volumes (they
\* are the names of the regular volumes, and the file's path is not among
\* them), and its bind in the owning service is ./<name>/<relative mount
\* path>:<mount path>, whether or not another component mounts the volume.
C13_ConfigFileNeverNamedVolume ==
  vpc = "done"
    => /\ globalVolumes \subseteq {RegularVolumeName(ck) : ck \in Declared("share-file")}
       /\ \A ck \in Declared(ConfigFileVolumeType) :
            /\ ConfigFileSource(ck) \notin globalVolumes
            /\ componentVolumes[vcomps[ck[1]].id][ck[2]]
                 = ConfigFileSource(ck) \o ":" \o PathString(VolumeOf(ck).path)

C13_Witness ==
  /\ vpc = "done"
  /\ Len(vcomps) = 2
  /\ vcomps[1].volumes # <<>>
  /\ vcomps[1].volumes[1].type = ConfigFileVolumeType
  /\ vcomps[2].mounts # <<>>
  /\ vcomps[2].mounts[1].uuid = vcomps[1].id
  /\ vcomps[2].mounts[1].name = vcomps[1].volumes[1].name
  /\ componentVolumes[vcomps[2].id]
       = <<"./" \o vcomps[1].name \o "/etc/conf:/mnt">>
  /\ globalVolumes = {}

\* the compose name buildVolume gives the declared volume
BuiltName(ck) == buildVolume(vcomps[ck[1]].name, VolumeOf(ck))[2]

\* C14: two different regular volumes of components with different names get
\* different generated names, both among the global named volumes, so that the
\* global named volumes count one entry per declared regular volume.
C14_RegularVolumeNamesUnique ==
  vpc = "done"
    => /\ \A ck1, ck2 \in Declared("share-file") :
            (ck1 # ck2 /\ vcomps[ck1[1]].name # vcomps[ck2[1]].name)
              => /\ BuiltName(ck1) # BuiltName(ck2)
                 /\ {BuiltName(ck1), BuiltName(ck2)} \subseteq globalVolumes
       /\ (\A i, j \in VolPositions : i # j => vcomps[i].name # vcomps[j].name)
            => Cardinality(globalVolumes) = Cardinality(Declared("share-file"))

\* the binds of component i that follow those of its own volumes
DependentBinds(i) ==
  SubSeq(componentVolumes[vcomps[i].id], Len(vcomps[i].volumes) + 1,
         Len(componentVolumes[vcomps[i].id]))

\* the mounts of other components' volumes as <<component, position>>
Requested ==
  {bm \in VolPositions \X (1..MaxMounts) : bm[2] <= Len(vcomps[bm[1]].mounts)}

MountOf(bm) == vcomps[bm[1]].mounts[bm[2]]

\* the declared volumes the mount asks for: those named so in the component
\* with that share id
Targets(bm) ==
  {ck \in VolPositions \X (1..MaxVols) :
     /\ ck[2] <= Len(vcomps[ck[1]].volumes)
     /\ vcomps[ck[1]].id = MountOf(bm).uuid
     /\ VolumeOf(ck).name = MountOf(bm).name}

\* C15: when B mounts volume v of A at p and A declares a regular volume v,
\* the binds of B hold <A's name>_v:p for that edge, one bind per edge at
\* most, and every dependent bind of B is the bind of a volume that one of
\* its edges asks for.
C15_DependentBindIsTargetsVolume ==
  vpc = "done"
    => \A b \in VolPositions :
         /\ Len(DependentBinds(b)) <= Len(vcomps[b].mounts)
         /\ \A j \in 1..Len(vcomps[b].mounts) :
              \A ck \in Targets(<<b, j>>) \cap Declared("share-file") :
                \E n \in 1..Len(DependentBinds(b)) :
                  DependentBinds(b)[n]
                    = RegularVolumeName(ck) \o ":" \o vcomps[b].mounts[j].dir

\* the binds of the component's own volumes
OwnBinds(i) ==
  [k \in 1..Len(vcomps[i].volumes) |->
     buildVolume(vcomps[i].name, vcomps[i].volumes[k])[1]]

\* the binds of the mounts of component b from the j-th on, a mount of a
\* volume that its target never declared left out
RECURSIVE DeclaredBinds(_, _)
DeclaredBinds(b, j) ==
  IF j > Len(vcomps[b].mounts) THEN <<>>
  ELSE LET targets == Targets(<<b, j>>)
       IN (IF targets = {} THEN <<>>
           ELSE <<BuiltName(CHOOSE ck \in targets : TRUE) \o ":"
                    \o vcomps[b].mounts[j].dir>>)
          \o DeclaredBinds(b, j + 1)

\* C16: a mount of a volume its target never declared leaves out that one
\* bind only: every component ends with the binds of its own volumes followed
\* by the binds of its mounts of declared volumes, in order.
C16_OnlyUnresolvedBindOmitted ==
  vpc = "done"
    => \A b \in VolPositions :
         componentVolumes[vcomps[b].id] = OwnBinds(b) \o DeclaredBinds(b, 1)


(***************************************************************************)
(* Claims about the scrape updater (SpecMq).                               *)
(***************************************************************************)
\* the list stored by the last publishing call; empty before the first one
StoredByLastPublish ==
  IF scrapes = <<>> THEN <<>> ELSE Last(scrapes).Targets

\* the trimmed, sorted, de-duplicated address list of a call's arguments
AddressList(endpoints) ==
  Ascending({ TrimSpace(GjsonGet(endpoints[n].URL, "Addr")) :
                n \in 1..Len(endpoints) })

\* C22: a call of UpdateEndpoints publishes a scrape configuration exactly
\* when its trimmed, sorted, de-duplicated address list differs from the list
\* stored by the last publishing call; a call with an unchanged list
\* publishes nothing and leaves the stored list alone, and after a publishing
\* call the stored list is the target list of the published configuration.
C22_PublishOnlyOnChange ==
  [][ mcalls' = mcalls + 1 =>
        LET new == AddressList(lastCall'.endpoints)
        IN  /\ sortedEndpoints = StoredByLastPublish
            /\ IF new # StoredByLastPublish
                 THEN /\ Len(scrapes') = Len(scrapes) + 1
                      /\ SubSeq(scrapes', 1, Len(scrapes)) = scrapes
                      /\ Last(scrapes').Targets = new
                      /\ sortedEndpoints' = Last(scrapes').Targets
                 ELSE /\ scrapes' = scrapes
                      /\ sortedEndpoints' = sortedEndpoints ]_vars

\* a third call whose arguments are unsorted, untrimmed and duplicated and
\* name the addresses already stored: nothing is published after two
\* publishing calls
C22_Witness ==
  /\ mcalls = 3
  /\ Len(scrapes) = 2
  /\ ~lastCall.published
  /\ Len(lastCall.endpoints) = 2
  /\ lastCall.endpoints[1].URL = {<<"Addr", <<32, 97>>>>}
  /\ lastCall.endpoints[2].URL = {<<"Addr", <<97>>>>}
  /\ sortedEndpoints = << <<97>> >>


(***************************************************************************)
(* Claims about composeName (SpecSan).                                     *)
(***************************************************************************)
\* the characters of [A-Za-z0-9._-]
Allowed(r) ==
  \/ (r >= 97 /\ r <= 122)
  \/ (r >= 65 /\ r <= 90)
  \/ (r >= 48 /\ r <= 57)
  \/ r \in {46, 95, 45}

\* the characters composeName reads: the decoded, trimmed argument
InputChars == unicode2zh(text)

\* what one character gives by the rule of the claim
Transliterated(r) ==
  IF Allowed(r) THEN <<r>> ELSE IF IsHan(r) THEN Pinyin(r) ELSE <<95>>

\* C24: every character of composeName's output is in [A-Za-z0-9._-]; a
\* character outside that set and outside the ideograph range gives exactly
\* one '_' and is never copied, whatever its code point, also above 255.
C24_OutputInAllowedSet ==
  spc = "return"
    => /\ \A n \in 1..Len(res) : Allowed(res[n])
       /\ res = Flatten([n \in 1..Len(InputChars) |-> Transliterated(InputChars[n])])

====
